---- MODULE Spec2Model ----
(***************************************************************************)
(* napari-particle-tracking: the feature panel and the pixel classifier    *)
(* trigger (_pixel_classifier_widget.py) and the track analysis panel      *)
(* (_tracks_analysis_widget.py), as state machines.                        *)
(*                                                                         *)
(* Python strings are sequences of one-character strings, so that          *)
(* str.replace, str.strip, str.split and str.removeprefix are computed     *)
(* character by character.  A character that a string of this notation     *)
(* cannot hold is written by its code point: "<U+3000>".                   *)
(***************************************************************************)
EXTENDS Integers, Sequences, FiniteSets, TLC

VARIABLES
    \* FeatureSelectionWidget
    features,        \* self._features
    checked,         \* the (row, column) feature check boxes that are checked
    keep_original,   \* self._keep_original.isChecked()
    toggles,         \* the number of stateChanged events delivered so far
    \* PixelClassifierWidget and the viewer
    layers,          \* self.viewer.layers: the layers, each [name, kind, data]
    tc,              \* what the last _train_and_classify call that ended did
    calls,           \* the _train_and_classify calls that are predicting (a stack)
    \* TracksAnaysisWidget and the viewer's Tracks layers
    tracks,          \* the Tracks layers: id -> [name, data, metadata, callbacks]
    sel,             \* get_selected_layers().get("Tracks", None): a layer id or NoLayer
    timedelay,       \* self._timedelay.value()
    max_try,         \* self._max_try.text()
    intensity,       \* self._intensity_option.currentData()
    attrs,           \* the widget's attributes filtered_tracks_df, tracked_msd, tracked_msd_fit
    plot,            \* self._plot_scroll.widget(): the histograms shown, or None
    an,              \* what the last _analyze call did, with its local variables
    dl,              \* what the last _download call did, with the files it wrote
    click            \* the trackSelected signals of the last double click

fvars == <<features, checked, keep_original, toggles>>
cvars == <<layers, tc, calls>>
tvars == <<tracks, sel, timedelay, max_try, intensity, attrs, plot, an, dl, click>>

vars == <<features, checked, keep_original, toggles, layers, tc, calls,
          tracks, sel, timedelay, max_try, intensity, attrs, plot, an, dl, click>>

\* Python's None, where an object or an array is expected
None == [none |-> TRUE]

(***************************************************************************)
(* Python str                                                              *)
(***************************************************************************)
SP == <<" ">>

\* s[i:] (1-based i)
From(s, i) == SubSeq(s, i, Len(s))

\* s.startswith(p)
StartsWith(s, p) == Len(p) <= Len(s) /\ SubSeq(s, 1, Len(p)) = p

\* the least element of a non-empty set of integers
Min(S) == CHOOSE x \in S : \A y \in S : x <= y
Max(S) == CHOOSE x \in S : \A y \in S : x >= y

\* the indices at which old occurs in s
Occurrences(s, old) ==
    {i \in 1..(Len(s) - Len(old) + 1) : SubSeq(s, i, i + Len(old) - 1) = old}

RECURSIVE Replace(_, _, _)
\* s.replace(old, new), old non-empty: the occurrences are found left to
\* right and do not overlap
Replace(s, old, new) ==
    IF Occurrences(s, old) = {} THEN s
    ELSE LET i == Min(Occurrences(s, old))
         IN  SubSeq(s, 1, i - 1) \o new \o Replace(From(s, i + Len(old)), old, new)

HexDigits ==
    <<"0", "1", "2", "3", "4", "5", "6", "7", "8", "9", "A", "B", "C", "D", "E", "F">>

RECURSIVE Hex(_)
\* the hexadecimal numeral of n
Hex(n) ==
    IF n < 16 THEN HexDigits[n + 1] ELSE Hex(n \div 16) \o HexDigits[(n % 16) + 1]

\* the character with code point cp, written by its code point: at least
\* four hexadecimal digits
CodePoint(cp) ==
    LET h == Hex(cp)
    IN  "<U+" \o (IF Len(h) < 4 THEN SubSeq("000", 1, 4 - Len(h)) ELSE "") \o h \o ">"

\* the code points of the characters str.strip() and str.split() take for
\* whitespace (str.isspace)
WhitespaceCodePoints ==
    (\H9..\HD) \cup (\H1C..\H20) \cup {\H85, \HA0, \H1680} \cup (\H2000..\H200A)
        \cup {\H2028, \H2029, \H202F, \H205F, \H3000}

\* these characters: U+0020, \t, \n, \r, \f, U+000B, U+001C..U+001F, U+0085,
\* U+00A0 and U+1680 as they are, and all of them by code point
Whitespace ==
    {" ", "\t", "\n", "\r", "\f",
     "", "", "", "", "", "", " ", " "}
        \cup {CodePoint(cp) : cp \in WhitespaceCodePoints}

\* the whitespace int() skips around a number: not U+001C..U+001F
IntWhitespace ==
    Whitespace \ ({"", "", "", ""} \cup {CodePoint(cp) : cp \in \H1C..\H1F})

\* the indices of the characters of s that are not whitespace
NonBlank(s) == {i \in 1..Len(s) : s[i] \notin Whitespace}

\* s.strip()
Strip(s) ==
    IF NonBlank(s) = {} THEN <<>> ELSE SubSeq(s, Min(NonBlank(s)), Max(NonBlank(s)))

RECURSIVE Split(_)
\* s.split(): the whitespace-separated tokens of s, in order
Split(s) ==
    IF NonBlank(s) = {} THEN <<>>
    ELSE LET first == Min(NonBlank(s))
             blanks == {i \in first..Len(s) : s[i] \in Whitespace}
             stop == IF blanks = {} THEN Len(s) + 1 ELSE Min(blanks)
         IN  <<SubSeq(s, first, stop - 1)>> \o Split(From(s, stop))

\* s.removeprefix(p)
RemovePrefix(s, p) == IF StartsWith(s, p) THEN From(s, Len(p) + 1) ELSE s

(***************************************************************************)
(* FeatureSelectionWidget                                                  *)
(***************************************************************************)
original == <<"o","r","i","g","i","n","a","l">>
gaussian == <<"g","a","u","s","s","i","a","n">>
difference_of_gaussian ==
    <<"d","i","f","f","e","r","e","n","c","e","_","o","f","_">> \o gaussian
laplace_of_gaussian == <<"l","a","p","l","a","c","e","_","o","f","_">> \o gaussian

_available_features == <<gaussian, difference_of_gaussian, laplace_of_gaussian>>

\* str(value) for value in self._feature_range: the check boxes' texts
_feature_range ==
    << <<"0",".","3">>, <<"0",".","5">>, <<"1">>, <<"2">>, <<"3">>, <<"4">>,
       <<"5">>, <<"1","0">>, <<"1","5">>, <<"2","5">> >>

\* f"{self._feature_name}={_current_checkbox.text()}"
FeatureToken(row, col) == _available_features[row] \o <<"=">> \o _feature_range[col]

\* " original gaussian=1 difference_of_gaussian=1 ... laplace_of_gaussian=0.3 "
_default_features ==
    SP \o original
       \o SP \o FeatureToken(1, 3) \o SP \o FeatureToken(2, 3) \o SP \o FeatureToken(3, 3)
       \o SP \o FeatureToken(1, 2) \o SP \o FeatureToken(2, 2) \o SP \o FeatureToken(3, 2)
       \o SP \o FeatureToken(1, 1) \o SP \o FeatureToken(2, 1) \o SP \o FeatureToken(3, 1)
       \o SP

\* the rows of the form whose check boxes the model toggles: 1..FeatureRows
FeatureRows == 2
\* the columns whose check boxes the model toggles: "1" and "10"
FeatureCols == {3, 8}
\* the number of stateChanged events the model delivers
MaxToggles == 5

Boxes == (1..FeatureRows) \X FeatureCols

\* __init__ with self._features = ""  (line 91 alone)
ConstructedFeatures_unset == <<>>

\* self._features after __init__: " original "
ConstructedFeatures == SP \o original \o SP

\* _add_feature
AddFeature(fs, feature) == fs \o SP \o feature \o SP

\* _remove_feature that matches the bare feature name
RemoveFeature_bare(fs, feature) == SP \o Strip(Replace(fs, feature, SP)) \o SP

\* _remove_feature
RemoveFeature(fs, feature) ==
    SP \o Strip(Replace(fs, SP \o feature \o SP, SP)) \o SP

\* get_features
get_features == IF features # <<>> THEN features ELSE _default_features

\* a feature check box changes state: _update_features
ToggleFeature(box) ==
    /\ toggles < MaxToggles
    /\ IF box \notin checked
       THEN /\ checked' = checked \cup {box}
            /\ features' = AddFeature(features, FeatureToken(box[1], box[2]))
       ELSE /\ checked' = checked \ {box}
            /\ features' = RemoveFeature(features, FeatureToken(box[1], box[2]))
    /\ toggles' = toggles + 1
    /\ UNCHANGED <<keep_original, cvars, tvars>>

\* the "Keep Original" check box changes state: _update_original
ToggleOriginal ==
    /\ toggles < MaxToggles
    /\ keep_original' = ~keep_original
    /\ features' = IF keep_original' THEN AddFeature(features, original)
                   ELSE RemoveFeature(features, original)
    /\ toggles' = toggles + 1
    /\ UNCHANGED <<checked, cvars, tvars>>

(***************************************************************************)
(* PixelClassifierWidget._train_and_classify                               *)
(***************************************************************************)
Prediction_ == <<"P","r","e","d","i","c","t","i","o","n","_">>

\* the names of the Image layers the user adds: "a", "a " and "a\t"
ImageNames == {<<"a">>, <<"a", " ">>, <<"a", "\t">>}
\* the names of the Labels layers the user adds
LabelNames == {<<"L">>}
\* a numpy array, by its contents and the number of its elements
Array(contents, size) == [array |-> contents, size |-> size]
\* layer.data of an Image layer: None, a stack without planes (of shape
\* (0,)) or a stack of two planes
ImageData == {None, Array("im0", 0), Array("im1", 2)}
\* layer.data of a Labels layer: None, an array without elements or one
\* of two annotations of the stack
LabelData == {None, Array("gt0", 0), Array("gt1", 2), Array("gt2", 2)}

Layer(name, kind, data) == [name |-> name, kind |-> kind, data |-> data]

\* self._layers_widget.get_selected_layers(): None, or a dict whose "Image"
\* and "Labels" entries are layers of the viewer (a missing entry is None);
\* the annotation layers selected are the ones the user added
Selections ==
    {None} \cup
    [Image : {l \in layers : l.kind = "Image"} \cup {None},
     Labels : {l \in layers : l.kind = "Labels" /\ l.name \in LabelNames} \cup {None}]

\* _classifier.train(images, ground_truth, features) and the stacked
\* _classifier.predict(im), where train returns and the stack has planes:
\* the prediction for these inputs
Predict(images, ground_truth, fs) ==
    [of |-> images, trained_on |-> ground_truth, features |-> fs]

\* _has_layer
HasLayer(name) == \E layer \in layers : Strip(layer.name) = Strip(name)

\* f"Prediction_{_image_layer.name}"
PredictionLayerName(image_layer) == Prediction_ \o image_layer.name

Idle == [outcome |-> "idle", warning |-> "", trained |-> FALSE,
         selected |-> None, prediction |-> None]

Outcome(o, w, t, s, p) ==
    [outcome |-> o, warning |-> w, trained |-> t, selected |-> s, prediction |-> p]

\* the input checks of _train_and_classify: "return" when it returns
\* silently, the warning's text when it warns and returns, "" when it goes on
InputProblem(selected_layer) ==
    IF selected_layer = None THEN "return"
    ELSE IF selected_layer.Image = None THEN "Please select/add an Image layer."
    ELSE IF selected_layer.Image.data = None THEN "Image layer is empty."
    ELSE IF selected_layer.Labels = None THEN "Please select/add an Annotation layer."
    ELSE IF selected_layer.Labels.data = None THEN "Annotation layer is empty."
    ELSE ""

\* "Train & Classify" is clicked with this selection: lines 215-258, up
\* to the prediction, whose progress bar lets the event loop run other
\* handlers; the call keeps its _image_layer, images and _prediction.
\* The checks of lines 231 and 239 are "is None": an array without elements
\* passes them, and train is called with it.  PixelClassifier is library
\* code: given an array without elements its train raises or returns.
\* When it returns and the stack has no plane, np.dstack gets an empty list
\* and raises ValueError.  tc.trained: train was called and returned.
TrainAndClassify(selected_layer) ==
    LET problem == InputProblem(selected_layer) IN
    /\ IF problem = "return"
       THEN /\ tc' = Outcome("returned", "", FALSE, selected_layer, None)
            /\ UNCHANGED calls
       ELSE IF problem # ""
       THEN /\ tc' = Outcome("warned", problem, FALSE, selected_layer, None)
            /\ UNCHANGED calls
       ELSE LET images == selected_layer.Image.data
                ground_truth == selected_layer.Labels.data
                _prediction == Predict(images, ground_truth, get_features)
            IN  \E train_raises \in BOOLEAN :
                  /\ train_raises => images.size = 0 \/ ground_truth.size = 0
                  /\ IF train_raises
                     THEN /\ tc' = Outcome("TrainError", "", FALSE,
                                           selected_layer, None)
                          /\ UNCHANGED calls
                     ELSE IF images.size = 0
                     THEN /\ tc' = Outcome("ValueError", "", TRUE,
                                           selected_layer, None)
                          /\ UNCHANGED calls
                     ELSE /\ calls' = Append(calls,
                                             [selected_layer |-> selected_layer,
                                              _prediction |-> _prediction])
                          /\ UNCHANGED tc
    /\ UNCHANGED <<layers, fvars, tvars>>

\* the innermost call that is predicting goes on: lines 259-277, with the
\* viewer's layers as they are by now
StorePrediction ==
    /\ calls # <<>>
    /\ LET call == calls[Len(calls)]
           selected_layer == call.selected_layer
           _prediction == call._prediction
           _prediction_layer_name == PredictionLayerName(selected_layer.Image)
       IN  IF HasLayer(_prediction_layer_name)
           THEN IF \E layer \in layers : layer.name = _prediction_layer_name
                THEN \* self.viewer.layers[name]; its data is replaced
                     /\ layers' =
                          {IF layer.name = _prediction_layer_name
                           THEN [layer EXCEPT !.data = _prediction]
                           ELSE layer : layer \in layers}
                     /\ tc' = Outcome("done", "", TRUE, selected_layer, _prediction)
                ELSE \* self.viewer.layers[name] raises KeyError
                     /\ tc' = Outcome("KeyError", "", TRUE, selected_layer,
                                      _prediction)
                     /\ UNCHANGED layers
           ELSE \* self.viewer.add_labels(zeros, name=name); data replaced
                /\ layers' = layers \cup
                       {Layer(_prediction_layer_name, "Labels", _prediction)}
                /\ tc' = Outcome("done", "", TRUE, selected_layer, _prediction)
    /\ calls' = SubSeq(calls, 1, Len(calls) - 1)
    /\ UNCHANGED <<fvars, tvars>>

\* the user adds an Image layer to the viewer
AddImage(name, data) ==
    /\ \A layer \in layers : layer.name # name
    /\ layers' = layers \cup {Layer(name, "Image", data)}
    /\ UNCHANGED <<tc, calls, fvars, tvars>>

\* the user adds a Labels layer to the viewer
AddLabels(name, data) ==
    /\ \A layer \in layers : layer.name # name
    /\ layers' = layers \cup {Layer(name, "Labels", data)}
    /\ UNCHANGED <<tc, calls, fvars, tvars>>

\* the user paints on a Labels layer they added
EditLabels(name, data) ==
    /\ data # None
    /\ data.size # 0
    /\ \E layer \in layers :
         /\ layer.name = name /\ layer.kind = "Labels" /\ layer.data # data
         /\ layers' = (layers \ {layer}) \cup {[layer EXCEPT !.data = data]}
    /\ UNCHANGED <<tc, calls, fvars, tvars>>

\* the calls of _train_and_classify that are predicting at once
MaxNesting == 2

NextClassifier ==
    \/ \E name \in ImageNames, data \in ImageData : AddImage(name, data)
    \/ \E name \in LabelNames, data \in LabelData : AddLabels(name, data)
    \/ \E name \in LabelNames, data \in LabelData : EditLabels(name, data)
    \/ Len(calls) < MaxNesting
          /\ \E selected_layer \in Selections : TrainAndClassify(selected_layer)
    \/ StorePrediction

(***************************************************************************)
(* TracksAnaysisWidget: the tables                                         *)
(***************************************************************************)
\* f[k] = v, whether or not k was a key of f (a dict or attribute store)
Put(f, k, v) == [x \in DOMAIN f \cup {k} |-> IF x = k THEN v ELSE f[x]]

EmptyDict == [x \in {} |-> 0]

\* .get("Tracks", None) found no Tracks layer
NoLayer == "None"

Tracks_ == <<"T","r","a","c","k","s","_">>

Row(t, f, x, y, mx, mn, mi) ==
    [track_id |-> t, frame |-> f, x |-> x, y |-> y,
     max_intensity |-> mx, mean_intensity |-> mn, min_intensity |-> mi]

Row3(t, f, x, y, z, mx, mn, mi) ==
    [track_id |-> t, frame |-> f, x |-> x, y |-> y, z |-> z,
     max_intensity |-> mx, mean_intensity |-> mn, min_intensity |-> mi]

Columns2D ==
    {"track_id", "frame", "x", "y", "max_intensity", "mean_intensity", "min_intensity"}

\* metadata["original_tracks_df"] of layer Tracks_A: two 2D tracks whose
\* mean max_intensity values, 990 and 1010, average to exactly 1000
DatasetA ==
    [columns |-> Columns2D,
     rows |-> {Row(1, 0, 0, 0, 980, 900, 10), Row(1, 1, 1, 0, 1000, 950, 20),
               Row(2, 0, 5, 5, 1010, 1000, 2000)}]

\* metadata["original_tracks_df"] of layer Tracks_B: 3D tracks with the
\* same track ids as Tracks_A
DatasetB ==
    [columns |-> Columns2D \cup {"z"},
     rows |-> {Row3(1, 0, 0, 0, 0, 2000, 1500, 1200),
               Row3(1, 1, 0, 2, 1, 2100, 1600, 900),
               Row3(2, 3, 7, 7, 7, 40, 30, 20)}]

\* metadata["original_tracks_df"] of layer Tracks_R: three tracks of three
\* points whose mean max_intensity values, 2/3, 6161/3 and 2837/3, average
\* to exactly 1000, none of the three being a float64
DatasetR ==
    [columns |-> Columns2D,
     rows |-> {Row(1, 0, 0, 0, 0, 0, 0), Row(1, 1, 1, 0, 1, 0, 0),
               Row(1, 2, 2, 0, 1, 1, 0),
               Row(2, 0, 5, 5, 2053, 2000, 1500), Row(2, 1, 6, 5, 2054, 2000, 1500),
               Row(2, 2, 7, 5, 2054, 2000, 1500),
               Row(3, 0, 9, 9, 945, 900, 500), Row(3, 1, 9, 8, 946, 900, 500),
               Row(3, 2, 9, 7, 946, 900, 500)}]

\* the track ids a Tracks layer's data may show: 1..MaxTrackId
MaxTrackId == 3
\* the number of double-click callbacks the model registers on one layer
MaxCallbacks == 2

RECURSIVE SortedSeq(_)
\* the elements of a set of integers in ascending order (groupby sorts its keys)
SortedSeq(S) ==
    IF S = {} THEN <<>>
    ELSE LET m == Min(S)
         IN  <<m>> \o SortedSeq(S \ {m})

RECURSIVE SumOf(_, _)
\* the sum of row[col] over a set of rows
SumOf(rows, col) ==
    IF rows = {} THEN 0
    ELSE LET r == CHOOSE x \in rows : TRUE
         IN  r[col] + SumOf(rows \ {r}, col)

\* tracks_df[tracks_df["track_id"].isin(ids)] keeping every row instead
FilterRows_all(df, ids) == df

\* tracks_df[tracks_df["track_id"].isin(ids)]
FilterRows(df, ids) == [df EXCEPT !.rows = {r \in df.rows : r.track_id \in ids}]

\* the keys of df.groupby("track_id"), ascending
GroupKeys(df) == SortedSeq({r.track_id : r \in df.rows})

Group(df, t) == {r \in df.rows : r.track_id = t}

\* df.groupby("track_id").size().to_numpy()
GroupSize(df) ==
    [i \in 1..Len(GroupKeys(df)) |-> Cardinality(Group(df, GroupKeys(df)[i]))]

\* df.groupby("track_id")[col].mean().to_numpy(): each mean as the fraction
\* num / den
GroupMean(df, col) ==
    [i \in 1..Len(GroupKeys(df)) |->
        [num |-> SumOf(Group(df, GroupKeys(df)[i]), col),
         den |-> Cardinality(Group(df, GroupKeys(df)[i]))]]

(***************************************************************************)
(* float64 arithmetic on values that are not negative                      *)
(*                                                                         *)
(* A float64 is [bits, e]: the binary digits of its significand, first     *)
(* and last digit 1, and the exponent of the last digit; zero has no       *)
(* digits.  Intensities are natural numbers here; they, their sums and     *)
(* their means are far from the largest and the smallest float64.          *)
(***************************************************************************)
\* the digits of the significand of a float64
Precision == 53
\* the binary digits of a natural number of the tables, all below 2^31
IntDigits == 31

Zeros(n) == [i \in 1..n |-> 0]

\* the number with these binary digits, the last of exponent e, without
\* leading and trailing zeros
Normal(bits, e) ==
    LET digits == bits \o <<>>
        n == Len(digits)
    IN  IF \A i \in 1..n : digits[i] = 0 THEN [bits |-> <<>>, e |-> 0]
        ELSE LET first == CHOOSE i \in 1..n :
                             digits[i] = 1 /\ \A j \in 1..(i - 1) : digits[j] = 0
                 last == CHOOSE i \in 1..n :
                            digits[i] = 1 /\ \A j \in (i + 1)..n : digits[j] = 0
             IN  [bits |-> SubSeq(digits, first, last), e |-> e + (n - last)]

\* whether adding the digits a and b, as many each, carries into digit i:
\* the first place after i where the two digits are the same decides
Carry(a, b, i) ==
    LET n == Len(a)
        same == CHOOSE j \in (i + 1)..(n + 1) :
                   /\ j = n + 1 \/ a[j] = b[j]
                   /\ \A k \in (i + 1)..(j - 1) : a[k] # b[k]
    IN  same <= n /\ a[same] = 1

\* the binary digits of the sum of two numbers with as many digits each:
\* one digit more
AddDigits(a, b) ==
    [p \in 1..(Len(a) + 1) |->
        ((IF p = 1 THEN 0 ELSE a[p - 1] + b[p - 1])
            + (IF Carry(a, b, p - 1) THEN 1 ELSE 0)) % 2]

\* the float64 nearest to x, ties to the even significand
Round(x) ==
    IF Len(x.bits) <= Precision THEN x
    ELSE LET keep == SubSeq(x.bits, 1, Precision)
             e == x.e + (Len(x.bits) - Precision)
             below == \E i \in (Precision + 2)..Len(x.bits) : x.bits[i] = 1
             up == x.bits[Precision + 1] = 1 /\ (below \/ keep[Precision] = 1)
         IN  IF up THEN Normal(AddDigits(keep, Zeros(Precision - 1) \o <<1>>), e)
             ELSE Normal(keep, e)

\* the binary digits of the natural number v, m of them
DigitsOf(v, m) == [i \in 1..m |-> (v \div 2^(m - i)) % 2]

RECURSIVE ValueOf(_)
\* the natural number with these binary digits
ValueOf(bits) ==
    IF bits = <<>> THEN 0
    ELSE 2 * ValueOf(SubSeq(bits, 1, Len(bits) - 1)) + bits[Len(bits)]

\* float(n) of a natural number of the tables: its binary digits from the
\* first 1 to the last
FloatOf(n) ==
    IF n = 0 THEN [bits |-> <<>>, e |-> 0]
    ELSE LET width == CHOOSE w \in 1..IntDigits : n \div 2^(w - 1) = 1
             e == CHOOSE t \in 0..(width - 1) :
                     /\ (n \div 2^t) % 2 = 1
                     /\ \A u \in 0..(t - 1) : (n \div 2^u) % 2 = 0
         IN  [bits |-> DigitsOf(n \div 2^e, width - e) \o <<>>, e |-> e]

RECURSIVE Quotient(_, _, _, _)
\* the binary digits of the quotient by den of the number with the binary
\* digits bits, after carrying r, m digits at a time, and a last digit 1
\* when the division leaves a remainder
Quotient(bits, r, den, m) ==
    IF bits = <<>> THEN <<IF r = 0 THEN 0 ELSE 1>>
    ELSE LET k == Min({m, Len(bits)})
             t == r * 2^k + ValueOf(SubSeq(bits, 1, k))
         IN  DigitsOf(t \div den, k)
                \o Quotient(SubSeq(bits, k + 1, Len(bits)), t % den, den, m)

\* the exponent of the first digit of x, x not zero
Top(x) == x.e + Len(x.bits) - 1

\* x / n in float64, for a float64 x and a natural number n of 1..2^29:
\* by a power of two the exponent changes and the digits stay; by another
\* number, the quotient to more digits than a float64 has, rounded
Divide(x, n) ==
    LET d == FloatOf(n) IN
    IF x.bits = <<>> THEN x
    ELSE IF d.bits = <<1>> THEN [bits |-> x.bits, e |-> x.e - d.e]
    ELSE LET width == Top(d) + 1
             more == Precision + 2 + width
         IN  Round(Normal(Quotient(x.bits \o Zeros(more), 0, n,
                                   IntDigits - 1 - width),
                          x.e - more - 1))

\* x + y in float64
Add(x, y) ==
    IF x.bits = <<>> THEN y
    ELSE IF y.bits = <<>> THEN x
    ELSE LET e == Min({x.e, y.e})
             top == Max({Top(x), Top(y)})
             a == Zeros(top - Top(x)) \o x.bits \o Zeros(x.e - e)
             b == Zeros(top - Top(y)) \o y.bits \o Zeros(y.e - e)
         IN  Round(Normal(AddDigits(a, b), e))

\* x >= y for two float64
GreaterEqual(x, y) ==
    IF y.bits = <<>> THEN TRUE
    ELSE IF x.bits = <<>> THEN FALSE
    ELSE IF Top(x) # Top(y) THEN Top(x) > Top(y)
    ELSE LET n == Max({Len(x.bits), Len(y.bits)})
             a == x.bits \o Zeros(n - Len(x.bits))
             b == y.bits \o Zeros(n - Len(y.bits))
         IN  \/ a = b
             \/ \E i \in 1..n : /\ a[i] = 1 /\ b[i] = 0
                                /\ \A j \in 1..(i - 1) : a[j] = b[j]

RECURSIVE SumOver(_, _, _)
\* res += a[i] for the indices of a given, in order
SumOver(res, a, indices) ==
    IF indices = <<>> THEN res
    ELSE SumOver(Add(res, a[Head(indices)]), a, Tail(indices))

\* i, i + step, ... up to last
Stride(i, step, last) ==
    [k \in 1..(IF last < i THEN 0 ELSE (last - i) \div step + 1) |-> i + (k - 1) * step]

\* numpy's unrolled loop and the block of values one call of it sums
Unroll == 8
BlockSize == 128

RECURSIVE PairwiseSum(_)
\* numpy's pairwise summation of the float64 values a
PairwiseSum(a) ==
    LET n == Len(a) IN
    IF n < Unroll THEN SumOver(FloatOf(0), a, Stride(1, 1, n))
    ELSE IF n <= BlockSize
    THEN LET whole == n - (n % Unroll)
             r == [j \in 1..Unroll |->
                     SumOver(a[j], a, Stride(j + Unroll, Unroll, whole))]
             res == Add(Add(Add(r[1], r[2]), Add(r[3], r[4])),
                        Add(Add(r[5], r[6]), Add(r[7], r[8])))
         IN  SumOver(res, a, Stride(whole + 1, 1, n))
    ELSE LET half == n \div 2
             n2 == half - (half % Unroll)
         IN  Add(PairwiseSum(SubSeq(a, 1, n2)), PairwiseSum(SubSeq(a, n2 + 1, n)))

\* the mean pandas gives a group: the sum of its values, which is exact,
\* divided by their number
FloatOfMean(m) == Divide(FloatOf(m.num), m.den)

\* np.mean of per-track means: the values summed, divided by their number
NpMean(means) ==
    Divide(PairwiseSum([i \in 1..Len(means) |-> FloatOfMean(means[i])]), Len(means))

\* np.mean(means) >= c; the mean of no values is nan, and nan >= c is False
MeanGE(means, c) ==
    /\ means # <<>>
    /\ GreaterEqual(NpMean(means), FloatOf(c))

\* binsize = 100 if np.mean(track_mean_intensity) >= 1000 else 5
BinSize(track_mean_intensity) ==
    IF MeanGE(track_mean_intensity, 1000) THEN 100 ELSE 5

\* msd(x[["x", "y"]].to_numpy()) or msd(x[["x", "y", "z"]].to_numpy()) of one
\* track: the library's result for these points
MsdOf(rows, with_z) ==
    [msd_of |-> {<<r.frame, IF with_z THEN <<r.x, r.y, r.z>> ELSE <<r.x, r.y>> >> :
                    r \in rows}]

\* current_tracks_df.groupby("track_id").apply(msd ...): track id -> msd
TrackMsd(df) ==
    [t \in {r.track_id : r \in df.rows} |-> MsdOf(Group(df, t), "z" \in df.columns)]

Digits == <<"0", "1", "2", "3", "4", "5", "6", "7", "8", "9">>

\* the code points of the digits zero of the scripts with decimal digits
\* (Unicode 14, category Nd); the digits one to nine follow each
DecimalZeros ==
    {\H30, \H660, \H6F0, \H7C0, \H966, \H9E6, \HA66, \HAE6, \HB66,
     \HBE6, \HC66, \HCE6, \HD66, \HDE6, \HE50, \HED0, \HF20, \H1040,
     \H1090, \H17E0, \H1810, \H1946, \H19D0, \H1A80, \H1A90, \H1B50, \H1BB0,
     \H1C40, \H1C50, \HA620, \HA8D0, \HA900, \HA9D0, \HA9F0, \HAA50, \HABF0,
     \HFF10, \H104A0, \H10D30, \H11066, \H110F0, \H11136, \H111D0, \H112F0, \H11450,
     \H114D0, \H11650, \H116C0, \H11730, \H118E0, \H11950, \H11C50, \H11D50, \H11DA0,
     \H16A60, \H16AC0, \H16B50, \H1D7CE, \H1D7D8, \H1D7E2, \H1D7EC, \H1D7F6, \H1E140,
     \H1E2F0, \H1E950, \H1FBF0}

\* the digits of these scripts that a string can hold as they are
WrittenDigits ==
    << <<"0", "1", "2", "3", "4", "5", "6", "7", "8", "9">>,
       <<"۰", "۱", "۲", "۳", "۴", "۵", "۶", "۷", "۸", "۹">>,
       <<"߀", "߁", "߂", "߃", "߄", "߅", "߆", "߇", "߈", "߉">>,
       <<"০", "১", "২", "৩", "৪", "৫", "৬", "৭", "৮", "৯">>,
       <<"૦", "૧", "૨", "૩", "૪", "૫", "૬", "૭", "૮", "૯">>,
       <<"௦", "௧", "௨", "௩", "௪", "௫", "௬", "௭", "௮", "௯">>,
       <<"೦", "೧", "೨", "೩", "೪", "೫", "೬", "೭", "೮", "೯">>,
       <<"෦", "෧", "෨", "෩", "෪", "෫", "෬", "෭", "෮", "෯">>,
       <<"໐", "໑", "໒", "໓", "໔", "໕", "໖", "໗", "໘", "໙">>,
       <<"႐", "႑", "႒", "႓", "႔", "႕", "႖", "႗", "႘", "႙">>,
       <<"០", "១", "២", "៣", "៤", "៥", "៦", "៧", "៨", "៩">>,
       <<"᧐", "᧑", "᧒", "᧓", "᧔", "᧕", "᧖", "᧗", "᧘", "᧙">>,
       <<"᪀", "᪁", "᪂", "᪃", "᪄", "᪅", "᪆", "᪇", "᪈", "᪉">>,
       <<"᪐", "᪑", "᪒", "᪓", "᪔", "᪕", "᪖", "᪗", "᪘", "᪙">>,
       <<"᮰", "᮱", "᮲", "᮳", "᮴", "᮵", "᮶", "᮷", "᮸", "᮹">>,
       <<"꣐", "꣑", "꣒", "꣓", "꣔", "꣕", "꣖", "꣗", "꣘", "꣙">>,
       <<"꧐", "꧑", "꧒", "꧓", "꧔", "꧕", "꧖", "꧗", "꧘", "꧙">>,
       <<"꧰", "꧱", "꧲", "꧳", "꧴", "꧵", "꧶", "꧷", "꧸", "꧹">>,
       <<"꯰", "꯱", "꯲", "꯳", "꯴", "꯵", "꯶", "꯷", "꯸", "꯹">> >>

\* the characters int() takes for the digit v
DecimalDigits ==
    [v \in 0..9 |->
        {WrittenDigits[i][v + 1] : i \in 1..Len(WrittenDigits)}
            \cup {CodePoint(z + v) : z \in DecimalZeros}]

IsDigit(c) == \E v \in 0..9 : c \in DecimalDigits[v]

DigitValue(c) == CHOOSE v \in 0..9 : c \in DecimalDigits[v]

\* text without the whitespace int() skips at its ends
IntStrip(text) ==
    LET black == {i \in 1..Len(text) : text[i] \notin IntWhitespace}
    IN  IF black = {} THEN <<>> ELSE SubSeq(text, Min(black), Max(black))

\* the text int() parses, without surrounding whitespace and without sign
IntBody(text) ==
    LET t == IntStrip(text)
    IN  IF t # <<>> /\ t[1] \in {"+", "-"} THEN Tail(t) ELSE t

\* sys.int_info.default_max_str_digits: the digits int() takes at most
MaxStrDigits == 4300

\* whether int(text) returns: after the surrounding whitespace and one
\* optional sign, digits with single underscores between them, and no more
\* than MaxStrDigits digits, leading zeros counted (a longer text raises
\* ValueError as a malformed one does)
IsInt(text) ==
    LET b == IntBody(text) IN
    /\ b # <<>>
    /\ \A i \in 1..Len(b) : IsDigit(b[i]) \/ b[i] = "_"
    /\ IsDigit(b[1]) /\ IsDigit(b[Len(b)])
    /\ \A i \in 1..(Len(b) - 1) : ~(b[i] = "_" /\ b[i + 1] = "_")
    /\ Cardinality({i \in 1..Len(b) : b[i] # "_"}) <= MaxStrDigits

RECURSIVE DigitsValue(_)
\* the digits of b, without its underscores, as ASCII digits in one string
DigitsValue(b) ==
    IF b = <<>> THEN ""
    ELSE IF b[Len(b)] = "_" THEN DigitsValue(SubSeq(b, 1, Len(b) - 1))
    ELSE DigitsValue(SubSeq(b, 1, Len(b) - 1)) \o Digits[DigitValue(b[Len(b)]) + 1]

RECURSIVE Numeral(_)
\* a string of digits without its leading zeros
Numeral(ds) ==
    IF Len(ds) > 1 /\ SubSeq(ds, 1, 1) = "0" THEN Numeral(SubSeq(ds, 2, Len(ds)))
    ELSE ds

\* int(text), where it returns: an int has no bound, so it is kept as its
\* decimal numeral, "-5" or "2147483648"
IntOf(text) ==
    LET n == Numeral(DigitsValue(IntBody(text)))
    IN  IF IntStrip(text)[1] = "-" /\ n # "0" THEN "-" \o n ELSE n

\* a fitted exponent, in hundredths; nan when the fit is undefined
Alpha(v) == [nan |-> FALSE, v |-> v]
NaN == [nan |-> TRUE, v |-> 0]

\* float comparisons with a literal given in hundredths: every comparison
\* with nan is False
LT(a, c) == ~a.nan /\ a.v < c
LE(a, c) == ~a.nan /\ a.v <= c
GT(a, c) == ~a.nan /\ a.v > c
GE(a, c) == ~a.nan /\ a.v >= c

\* the ids the boolean mask keeps, as .index.to_numpy() (a set here)
\* _confined_tracks with <= in place of <
ConfinedTracks_le(fit) == {t \in DOMAIN fit : LE(fit[t], 40)}

\* current_track_fit_df[current_track_fit_df < 0.4].index
ConfinedTracks(fit) == {t \in DOMAIN fit : LT(fit[t], 40)}

\* current_track_fit_df[(... >= 0.4) & (... <= 1.2)].index
DiffusiveTracks(fit) == {t \in DOMAIN fit : GE(fit[t], 40) /\ LE(fit[t], 120)}

\* current_track_fit_df[current_track_fit_df > 1.2].index
DirectedTracks(fit) == {t \in DOMAIN fit : GT(fit[t], 120)}

\* current_tracks_df[current_tracks_df["track_id"].isin(ids)]
\*     .groupby("track_id")[col].mean().to_numpy()
ClassMeanIntensity(df, ids, col) == GroupMean(FilterRows(df, ids), col)

\* self._intensity_option: userData -> text
IntensityOptions ==
    [max_intensity |-> "Max Intensity", mean_intensity |-> "Mean Intensity",
     min_intensity |-> "Min Intensity"]

Hist(values, binsize, title, info) ==
    [values |-> values, binsize |-> binsize, title |-> title, info |-> info]

\* _hist_params: the six histograms; a bin size is the fraction <<num, den>>
HistParams(df, fit, binsize, col) ==
    LET text == IntensityOptions[col]
        keys == SortedSeq(DOMAIN fit)
        current_track_fit == [i \in 1..Len(keys) |-> fit[keys[i]]]
        track_lengths == GroupSize(df)
        track_mean_intensity == GroupMean(df, col)
        confined == ClassMeanIntensity(df, ConfinedTracks(fit), col)
        diffusive == ClassMeanIntensity(df, DiffusiveTracks(fit), col)
        directed == ClassMeanIntensity(df, DirectedTracks(fit), col)
    IN  << Hist(track_lengths, <<1, 1>>, <<"Track Length Histogram">>,
                <<Len(track_lengths)>>),
           Hist(track_mean_intensity, <<binsize, 1>>, <<"Track ", text, " Histogram">>,
                <<Len(track_mean_intensity)>>),
           Hist(current_track_fit, <<1, 10>>, <<"Track MSD Fit">>,
                <<Cardinality(ConfinedTracks(fit)), Cardinality(DiffusiveTracks(fit)),
                  Cardinality(DirectedTracks(fit))>>),
           Hist(confined, <<binsize, 1>>, <<"Track ", text, " Confined Histogram">>,
                <<Len(confined)>>),
           Hist(diffusive, <<binsize, 1>>, <<"Track ", text, " Diffusive Histogram">>,
                <<Len(diffusive)>>),
           Hist(directed, <<binsize, 1>>, <<"Track ", text, " Directed Histogram">>,
                <<Len(directed)>>) >>

(***************************************************************************)
(* TracksAnaysisWidget._analyze                                            *)
(***************************************************************************)
\* the track ids with rows in the filtered table of the selected layer:
\* the tracks the fit is called for
FitKeys ==
    IF sel = NoLayer \/ "original_tracks_df" \notin DOMAIN tracks[sel].metadata
    THEN {}
    ELSE {r.track_id :
            r \in FilterRows(tracks[sel].metadata["original_tracks_df"],
                             tracks[sel].data).rows}

\* what basic_msd_fit does over the tracks: it raises, or it returns an
\* alpha for every track (each drawn from alphas)
FitOutcomes(alphas) ==
    {[raises |-> TRUE, alpha |-> EmptyDict]}
        \cup {[raises |-> FALSE, alpha |-> a] : a \in [FitKeys -> alphas]}

\* lines 142-143: _tracks_layer.metadata["filtered_tracks_df"] = ...
StoreFiltered(layer, current_tracks_df) ==
    [layer EXCEPT !.metadata = Put(@, "filtered_tracks_df", current_tracks_df)]

\* append_mouse_callback: one more show_track closure in the layer's
\* mouse_double_click_callbacks
append_mouse_callback(track_layer) == [track_layer EXCEPT !.callbacks = @ + 1]

\* "Analyze" is clicked; fit is what the library's fit does in this run
Analyze(fit) ==
    /\ IF sel = NoLayer
       THEN \* warnings.warn("Please select/add a Tracks layer."); return
            /\ an' = [outcome |-> "warned"]
            /\ UNCHANGED <<tracks, attrs, plot>>
       ELSE IF "original_tracks_df" \notin DOMAIN tracks[sel].metadata
       THEN \* line 136 raises KeyError
            /\ an' = [outcome |-> "KeyError"]
            /\ UNCHANGED <<tracks, attrs, plot>>
       ELSE
         LET _tracks_layer == tracks[sel]
             _intensity_filter == intensity
             tracks_df == _tracks_layer.metadata["original_tracks_df"]
             current_track_ids == _tracks_layer.data
             current_tracks_df == FilterRows(tracks_df, current_track_ids)
             \* lines 142-143
             attrs1 == Put(attrs, "filtered_tracks_df", current_tracks_df)
             layer1 == StoreFiltered(_tracks_layer, current_tracks_df)
             track_lengths == GroupSize(current_tracks_df)
             track_mean_intensity == GroupMean(current_tracks_df, _intensity_filter)
             binsize == BinSize(track_mean_intensity)
             current_track_msd == TrackMsd(current_tracks_df)
             \* lines 169-172
             attrs2 == Put(attrs1, "tracked_msd", current_track_msd)
             layer2 == [layer1 EXCEPT !.metadata =
                          Put(Put(@, "tracked_msd", current_track_msd),
                              "msd_delta", timedelay)]
             \* the run ends in an exception, with these attributes and
             \* this layer written
             Raises(exception, written_attrs, written_layer) ==
                 /\ an' = [outcome |-> exception]
                 /\ attrs' = written_attrs
                 /\ tracks' = [tracks EXCEPT ![sel] = written_layer]
                 /\ UNCHANGED plot
         IN  IF current_tracks_df.rows = {}
             THEN \* no track shown has rows.  pandas is library code: on a
                  \* table without groups it raises in the apply of lines
                  \* 159-167, in reset_index at line 171 (self.tracked_msd is
                  \* assigned by then), or at the latest at line 186, where
                  \* a fit of no track has no column alpha; int() at line
                  \* 178 comes before that
                  \/ Raises("ApplyError", attrs1, layer1)
                  \/ Raises("ResetIndexError",
                            Put(attrs1, "tracked_msd", current_track_msd), layer1)
                  \/ Raises(IF IsInt(max_try) THEN "FitError" ELSE "ValueError",
                            attrs2, layer2)
             ELSE IF ~IsInt(max_try)
             THEN \* int(self._max_try.text()) raises ValueError
                  Raises("ValueError", attrs2, layer2)
             ELSE IF fit.raises
             THEN \* the fit raises
                  Raises("FitError", attrs2, layer2)
             ELSE
               LET current_track_fit_df_main ==
                       [alpha |-> fit.alpha, msd |-> current_track_msd,
                        delta |-> timedelay, maxfev |-> IntOf(max_try)]
                   current_track_fit_df == fit.alpha
                   \* lines 189-190
                   attrs3 == Put(attrs2, "tracked_msd_fit", current_track_fit_df_main)
                   layer3 == [layer2 EXCEPT !.metadata =
                                Put(@, "tracked_msd_fit", current_track_fit_df_main)]
                   _hist_params == HistParams(current_tracks_df, current_track_fit_df,
                                              binsize, _intensity_filter)
               IN  /\ attrs' = attrs3
                   \* line 316: append_mouse_callback(_tracks_layer)
                   /\ tracks' = [tracks EXCEPT ![sel] = append_mouse_callback(layer3)]
                   /\ plot' = _hist_params
                   /\ an' = [outcome |-> "done",
                             layer |-> sel,
                             current_track_ids |-> current_track_ids,
                             current_tracks_df |-> current_tracks_df,
                             intensity_filter |-> _intensity_filter,
                             track_lengths |-> track_lengths,
                             track_mean_intensity |-> track_mean_intensity,
                             binsize |-> binsize,
                             current_track_fit_df |-> current_track_fit_df,
                             confined_tracks |-> ConfinedTracks(current_track_fit_df),
                             diffusive_tracks |-> DiffusiveTracks(current_track_fit_df),
                             directed_tracks |-> DirectedTracks(current_track_fit_df)]
    /\ UNCHANGED <<sel, timedelay, max_try, intensity, dl, click, fvars, cvars>>

(***************************************************************************)
(* TracksAnaysisWidget._download                                           *)
(***************************************************************************)
_all_tracks_csv == <<"_","a","l","l","_","t","r","a","c","k","s",".","c","s","v">>
_msd_csv == <<"_","m","s","d",".","c","s","v">>
_msd_fit_csv == <<"_","m","s","d","_","f","i","t",".","c","s","v">>
_filtered_tracks_csv ==
    <<"_","f","i","l","t","e","r","e","d","_","t","r","a","c","k","s",".","c","s","v">>

File(name, table) == [name |-> name, table |-> table]

\* "Download" is clicked: lines 88-100, up to the directory dialog, which
\* waits in an event loop of its own while other handlers can run; the
\* call keeps its _tracks_layer and tracks_df
Download ==
    /\ IF sel = NoLayer
       THEN dl' = [outcome |-> "warned", files |-> <<>>]
       ELSE IF "original_tracks_df" \notin DOMAIN tracks[sel].metadata
       THEN dl' = [outcome |-> "KeyError", files |-> <<>>]
       ELSE dl' = [outcome |-> "dialog", files |-> <<>>,
                   _tracks_layer |-> sel,
                   tracks_df |-> tracks[sel].metadata["original_tracks_df"]]
    /\ UNCHANGED <<tracks, sel, timedelay, max_try, intensity, attrs, plot, an, click,
                   fvars, cvars>>

\* the directory dialog returns save_path, "" when it is cancelled:
\* lines 101-116, with the widget's attributes as they are by now
DialogReturns(save_path) ==
    /\ dl.outcome = "dialog"
    /\ IF save_path = ""
       THEN dl' = [outcome |-> "cancelled", files |-> <<>>]
       ELSE
         LET _tracks_layer == tracks[dl._tracks_layer]
             tracks_df == dl.tracks_df
             priject_name == RemovePrefix(_tracks_layer.name, Tracks_)
             f1 == <<File(priject_name \o _all_tracks_csv, tracks_df)>>
         IN  IF "tracked_msd" \notin DOMAIN attrs
             THEN dl' = [outcome |-> "AttributeError", files |-> f1]
             ELSE
             LET f2 == Append(f1, File(priject_name \o _msd_csv, attrs["tracked_msd"]))
             IN  IF "tracked_msd_fit" \notin DOMAIN attrs
                 THEN dl' = [outcome |-> "AttributeError", files |-> f2]
                 ELSE
                 LET f3 == Append(f2, File(priject_name \o _msd_fit_csv,
                                           attrs["tracked_msd_fit"]))
                 IN  IF "filtered_tracks_df" \notin DOMAIN attrs
                     THEN dl' = [outcome |-> "AttributeError", files |-> f3]
                     ELSE dl' = [outcome |-> "saved",
                                 files |-> Append(f3,
                                     File(priject_name \o _filtered_tracks_csv,
                                          attrs["filtered_tracks_df"]))]
    /\ UNCHANGED <<tracks, sel, timedelay, max_try, intensity, attrs, plot, an, click,
                   fvars, cvars>>

(***************************************************************************)
(* The user and the viewer                                                 *)
(***************************************************************************)
\* show_track, once per callback registered on the layer: get_value returns
\* track_id (NoTrack for None)
NoTrack == -1

DoubleClick(l, track_id) ==
    /\ click' = [layer |-> l,
                 emitted |-> IF track_id = NoTrack THEN <<>>
                             ELSE [i \in 1..tracks[l].callbacks |-> track_id]]
    /\ UNCHANGED <<tracks, sel, timedelay, max_try, intensity, attrs, plot, an, dl,
                   fvars, cvars>>

\* append_mouse_callback(track_layer) is called from outside the widget
AppendMouseCallback(l) ==
    /\ tracks' = [tracks EXCEPT ![l] = append_mouse_callback(@)]
    /\ UNCHANGED <<sel, timedelay, max_try, intensity, attrs, plot, an, dl, click,
                   fvars, cvars>>

\* the Tracks layer chosen in the layers widget changes
SelectTracks(l) ==
    /\ sel # l
    /\ sel' = l
    /\ UNCHANGED <<tracks, timedelay, max_try, intensity, attrs, plot, an, dl, click,
                   fvars, cvars>>

\* the tracks shown by a layer change (its data is replaced)
SetVisible(l, ids) ==
    /\ tracks[l].data # ids
    /\ tracks' = [tracks EXCEPT ![l].data = ids]
    /\ UNCHANGED <<sel, timedelay, max_try, intensity, attrs, plot, an, dl, click,
                   fvars, cvars>>

SetTimeDelay(value) ==
    /\ timedelay # value
    /\ timedelay' = value
    /\ UNCHANGED <<tracks, sel, max_try, intensity, attrs, plot, an, dl, click,
                   fvars, cvars>>

EditMaxTry(text) ==
    /\ max_try # text
    /\ max_try' = text
    /\ UNCHANGED <<tracks, sel, timedelay, intensity, attrs, plot, an, dl, click,
                   fvars, cvars>>

SetIntensityOption(data) ==
    /\ intensity # data
    /\ intensity' = data
    /\ UNCHANGED <<tracks, sel, timedelay, max_try, attrs, plot, an, dl, click,
                   fvars, cvars>>

TracksLayer(name, ids, metadata) ==
    [name |-> Tracks_ \o name, data |-> ids, metadata |-> metadata, callbacks |-> 0]

\* the exponents the fit returns in the analysis runs: nan, and values on
\* and next to the two thresholds
AnalysisAlphas == {NaN, Alpha(39), Alpha(40), Alpha(120), Alpha(121)}
\* the exponent the fit returns in the export runs
ExportAlphas == {Alpha(100)}
\* the sets of tracks the layers show in the export runs
ExportVisible == {{1}, {1, 2}}
\* "1000000", the text the widget is constructed with, "" and "-5"
MaxTryTexts == {<<"1","0","0","0","0","0","0">>, <<>>, <<"-","5">>}

(***************************************************************************)
(* The widgets as constructed, in a viewer without Image or Labels layers  *)
(***************************************************************************)
Init ==
    \* FeatureSelectionWidget.__init__
    /\ features = ConstructedFeatures
    /\ checked = {}
    /\ keep_original = TRUE
    /\ toggles = 0
    \* the viewer and PixelClassifierWidget.__init__
    /\ layers = {}
    /\ tc = Idle
    /\ calls = <<>>
    \* the Tracks layers of the viewer: Tracks_A, Tracks_B and Tracks_R made
    \* by the plugin (all their tracks shown), Tracks_C without a track table
    /\ tracks = [l \in {"A", "B", "C", "R"} |->
                   IF l = "A" THEN TracksLayer(<<"A">>, {1, 2},
                                               "original_tracks_df" :> DatasetA)
                   ELSE IF l = "B" THEN TracksLayer(<<"B">>, {1, 2},
                                                    "original_tracks_df" :> DatasetB)
                   ELSE IF l = "R" THEN TracksLayer(<<"R">>, {1, 2, 3},
                                                    "original_tracks_df" :> DatasetR)
                   ELSE TracksLayer(<<"C">>, {1}, EmptyDict)]
    /\ sel = NoLayer
    \* TracksAnaysisWidget.__init__
    /\ timedelay = 5
    /\ max_try = <<"1","0","0","0","0","0","0">>
    /\ intensity = "max_intensity"
    /\ attrs = EmptyDict
    /\ plot = None
    /\ an = [outcome |-> "idle"]
    /\ dl = [outcome |-> "idle", files |-> <<>>]
    /\ click = [layer |-> NoLayer, emitted |-> <<>>]

NextFeatures ==
    \/ \E box \in Boxes : ToggleFeature(box)
    \/ ToggleOriginal

SpecFeatures == Init /\ [][NextFeatures]_vars

\* the runs explored: a layer gets up to MaxCallbacks handlers
CallbackRoom == sel # NoLayer => tracks[sel].callbacks < MaxCallbacks

\* the analysis of layer Tracks_A, over every set of tracks shown and every
\* fit result, with the intensity column of the constructor (NextBinning
\* goes over the columns)
NextAnalysis ==
    \/ SelectTracks("A")
    \/ \E ids \in SUBSET (1..MaxTrackId) : SetVisible("A", ids)
    \/ CallbackRoom /\ \E fit \in FitOutcomes(AnalysisAlphas) : Analyze(fit)

SpecAnalysis == Init /\ [][NextAnalysis]_vars

\* a _download that is over and show_track change nothing that a handler
\* reads: they are explored as the last step of a session, and one
\* _download at a time
NoExportYet == dl.outcome \in {"idle", "dialog"}
NoClickYet == click.layer = NoLayer

\* analysis and export over the three layers
NextExport ==
    \/ NoExportYet /\ \E l \in {"A", "B", "C", NoLayer} : SelectTracks(l)
    \/ NoExportYet /\ \E ids \in ExportVisible : SetVisible("A", ids)
    \/ NoExportYet /\ \E text \in MaxTryTexts : EditMaxTry(text)
    \/ NoExportYet /\ CallbackRoom
          /\ \E fit \in FitOutcomes(ExportAlphas) : Analyze(fit)
    \/ NoExportYet /\ \E l \in {"A", "B"} :
                        /\ tracks[l].callbacks < MaxCallbacks
                        /\ AppendMouseCallback(l)
    \/ dl.outcome = "idle" /\ Download
    \/ \E save_path \in {"", "/data"} : DialogReturns(save_path)

SpecExport == Init /\ [][NextExport]_vars

\* analysis, with either time delay, and double clicks on the layers
NextClicks ==
    \/ NoClickYet /\ \E l \in {"A", "B", NoLayer} : SelectTracks(l)
    \/ NoClickYet /\ \E ids \in ExportVisible : SetVisible("A", ids)
    \/ NoClickYet /\ \E value \in {5, 10} : SetTimeDelay(value)
    \/ NoClickYet /\ CallbackRoom
          /\ \E fit \in FitOutcomes(ExportAlphas) : Analyze(fit)
    \/ NoClickYet /\ \E l \in {"A", "B"}, track_id \in {NoTrack, 1} :
                        DoubleClick(l, track_id)

SpecClicks == Init /\ [][NextClicks]_vars

\* the analysis of layer Tracks_R, over every set of tracks shown and
\* every intensity column
NextBinning ==
    \/ SelectTracks("R")
    \/ \E ids \in SUBSET (1..MaxTrackId) : SetVisible("R", ids)
    \/ \E data \in DOMAIN IntensityOptions : SetIntensityOption(data)
    \/ CallbackRoom /\ \E fit \in FitOutcomes(ExportAlphas) : Analyze(fit)

SpecBinning == Init /\ [][NextBinning]_vars

SpecClassifier == Init /\ [][NextClassifier]_vars


(***************************************************************************)
(* Claims: feature panel                                                   *)
(***************************************************************************)
CheckedTokens ==
    {FeatureToken(b[1], b[2]) : b \in checked}
        \cup (IF keep_original THEN {original} ELSE {})

TokenSeq == Split(get_features)

toggled == toggles > 0

\* C1: after every sequence of toggles the tokens of get_features() are
\* exactly the tokens of the checked boxes, plus "original" iff "Keep
\* Original" is checked, and no token occurs twice.
C1_TokensMatchChecked ==
    /\ {TokenSeq[i] : i \in 1..Len(TokenSeq)} = CheckedTokens
    /\ Len(TokenSeq) = Cardinality(CheckedTokens)

\* a box was removed while boxes checked before and after it stay, and the
\* pair gaussian=1 / difference_of_gaussian=1 / gaussian=10 is in play
C1_Witness ==
    /\ toggles = 5
    /\ <<1, 3>> \notin checked
    /\ {<<1, 8>>, <<2, 3>>} \subseteq checked
    /\ ~keep_original

\* C8 as stated: before any toggle get_features() is the default string.
C8_FreshIsDefault == ~toggled => get_features = _default_features

\* C8 amended: before any toggle get_features() is " original ", the token
\* of the one checked box, and not the default string; self._features is
\* never "", so the default string is never returned.
C8_FreshIsOriginal ==
    /\ ~toggled => get_features = SP \o original \o SP
    /\ get_features # _default_features
    /\ features # <<>>

C8_Witness == ~toggled /\ keep_original /\ checked = {} /\ TokenSeq = <<original>>

(***************************************************************************)
(* Claims: Train & Classify                                                *)
(***************************************************************************)
\* layer.data is absent (None) or empty (an array without elements)
NoData(data) == IF data = None THEN TRUE ELSE data.size = 0

\* a selection in which the image layer is missing (no selection at all
\* included), its data is absent or empty, the label layer is missing, or
\* its data is absent or empty
MissingInput(selected_layer) ==
    IF selected_layer = None THEN TRUE
    ELSE \/ selected_layer.Image = None
         \/ selected_layer.Labels = None
         \/ selected_layer.Image # None /\ NoData(selected_layer.Image.data)
         \/ selected_layer.Labels # None /\ NoData(selected_layer.Labels.data)

\* C4 as stated: a Train & Classify with the image layer missing, the
\* image data empty or absent, the label layer missing or the label data
\* empty or absent issues a warning and returns: no classifier is trained,
\* no layer of the viewer is added, replaced or modified, the feature
\* panel's state stays, and no prediction is under way.
C4_MissingInputAborts ==
    [][\A selected_layer \in Selections :
         (TrainAndClassify(selected_layer) /\ MissingInput(selected_layer))
            => /\ layers' = layers
               /\ fvars' = fvars
               /\ tc'.outcome = "warned"
               /\ tc'.warning # ""
               /\ ~tc'.trained
               /\ calls' = calls]_vars

\* C5 as stated: a trigger that passes the input checks on image layer N
\* completes with the prediction stored in the one layer named
\* Prediction_N, also when names differ only in surrounding whitespace.
C5_PredictionStored ==
    /\ tc.trained =>
         /\ tc.outcome = "done"
         /\ \E layer \in layers :
              /\ layer.name = PredictionLayerName(tc.selected.Image)
              /\ layer.data = tc.prediction
    /\ \A name \in ImageNames :
         Cardinality({layer \in layers : layer.name = Prediction_ \o name}) <= 1

(***************************************************************************)
(* Claims: Analyze                                                         *)
(***************************************************************************)
Done == an.outcome = "done"

\* the tracks of the last completed run and their fitted exponents
Analysed == DOMAIN an.current_track_fit_df
AlphaOf(t) == an.current_track_fit_df[t]

\* C2 as stated: the three classes of a completed run are pairwise
\* disjoint and every analysed track, whatever the fit returned for it
\* (nan included), is in one of them; the class sizes add up to the number
\* of analysed tracks.
C2_ClassesPartition ==
    Done =>
      /\ an.confined_tracks \cap an.diffusive_tracks = {}
      /\ an.confined_tracks \cap an.directed_tracks = {}
      /\ an.diffusive_tracks \cap an.directed_tracks = {}
      /\ an.confined_tracks \cup an.diffusive_tracks \cup an.directed_tracks = Analysed
      /\ plot[3].info[1] + plot[3].info[2] + plot[3].info[3] = Len(plot[3].values)

\* the rows of one track among the rows the run analysed, and their mean
RowsOfTrack(t) == {r \in an.current_tracks_df.rows : r.track_id = t}
MeanOfTrack(t) ==
    [num |-> SumOf(RowsOfTrack(t), an.intensity_filter),
     den |-> Cardinality(RowsOfTrack(t))]

\* the means of a set of tracks, ascending by track id
MeansOfTracks(ids) ==
    [i \in 1..Cardinality(ids) |-> MeanOfTrack(SortedSeq(ids)[i])]

\* C3: a completed run puts a track in confined iff alpha < 0.4, in
\* diffusive iff 0.4 <= alpha <= 1.2 (both ends included), in directed iff
\* alpha > 1.2, and the intensity values of each class histogram are the
\* means of exactly the tracks of that class.
C3_ClassThresholds ==
    Done =>
      /\ \A t \in Analysed :
           /\ t \in an.confined_tracks <=> (~AlphaOf(t).nan /\ AlphaOf(t).v < 40)
           /\ t \in an.diffusive_tracks <=>
                (~AlphaOf(t).nan /\ 40 <= AlphaOf(t).v /\ AlphaOf(t).v <= 120)
           /\ t \in an.directed_tracks <=> (~AlphaOf(t).nan /\ AlphaOf(t).v > 120)
      /\ an.confined_tracks \cup an.diffusive_tracks \cup an.directed_tracks
            \subseteq Analysed
      /\ plot[4].values = MeansOfTracks(an.confined_tracks)
      /\ plot[5].values = MeansOfTracks(an.diffusive_tracks)
      /\ plot[6].values = MeansOfTracks(an.directed_tracks)

\* a run whose two tracks got exactly 0.4 and exactly 1.2: both diffusive
C3_Witness ==
    /\ Done
    /\ an.current_track_fit_df = (1 :> Alpha(40) @@ 2 :> Alpha(120))
    /\ an.diffusive_tracks = {1, 2}
    /\ Len(plot[5].values) = 2

\* a step of _analyze (no other handler changes an, attrs, a layer's
\* metadata or its callbacks) that got as far as filtering the table
AnalyzeFiltered ==
    /\ sel # NoLayer
    /\ \/ an' # an
       \/ attrs' # attrs
       \/ tracks'[sel].metadata # tracks[sel].metadata
       \/ tracks'[sel].callbacks # tracks[sel].callbacks
    /\ an'.outcome \in {"done", "ApplyError", "ResetIndexError", "ValueError",
                        "FitError"}

\* C6: after Analyze the filtered table, in the widget and in the layer's
\* metadata, holds exactly the rows of original_tracks_df whose track_id is
\* in the layer's data, and the length and mean-intensity arrays have one
\* entry per such track id that has rows.
C6_FilteredToVisible ==
    [][AnalyzeFiltered =>
         LET tracks_df == tracks[sel].metadata["original_tracks_df"]
             visible == tracks[sel].data
             want == {r \in tracks_df.rows : r.track_id \in visible}
             with_rows == {t \in visible : \E r \in tracks_df.rows : r.track_id = t}
         IN  /\ attrs'["filtered_tracks_df"].rows = want
             /\ tracks'[sel].metadata["filtered_tracks_df"].rows = want
             /\ attrs'["filtered_tracks_df"].columns = tracks_df.columns
             /\ tracks'[sel].metadata["filtered_tracks_df"] = attrs'["filtered_tracks_df"]
             /\ an'.outcome = "done" =>
                  /\ Len(an'.track_lengths) = Cardinality(with_rows)
                  /\ Len(an'.track_mean_intensity) = Cardinality(with_rows)
                  /\ \A i \in 1..Cardinality(with_rows) :
                       LET rows == {r \in tracks_df.rows :
                                      r.track_id = SortedSeq(with_rows)[i]}
                       IN  /\ an'.track_lengths[i] = Cardinality(rows)
                           /\ an'.track_mean_intensity[i].den = Cardinality(rows)
                           /\ an'.track_mean_intensity[i].num
                                = SumOf(rows, intensity)]_vars

\* a completed run on a layer showing track 2 and a track without rows:
\* the table keeps track 2's rows and drops track 1's
C6_Witness ==
    /\ Done
    /\ an.current_track_ids = {2, 3}
    /\ Len(an.track_lengths) = 1
    /\ tracks["A"].metadata["filtered_tracks_df"].rows
          = {r \in DatasetA.rows : r.track_id = 2}

RECURSIVE DenProduct(_)
\* the product of the denominators of the fractions of means
DenProduct(means) ==
    IF means = <<>> THEN 1 ELSE Head(means).den * DenProduct(Tail(means))

RECURSIVE ScaledSum(_, _)
\* the sum of the fractions of means, times d (a multiple of every den)
ScaledSum(means, d) ==
    IF means = <<>> THEN 0
    ELSE Head(means).num * (d \div Head(means).den) + ScaledSum(Tail(means), d)

\* the mean of the per-track means of the last completed run, as the
\* rational number it is, compared with 1000
MeanOfMeansCmp1000 ==
    LET means == an.track_mean_intensity
        lhs == ScaledSum(means, DenProduct(means))
        rhs == 1000 * Len(means) * DenProduct(means)
    IN  IF lhs > rhs THEN "above" ELSE IF lhs = rhs THEN "equal" ELSE "below"

\* C7 as stated: the intensity histograms' bin width is 100 when the mean
\* of the per-track mean intensities of the visible tracks is >= 1000 and 5
\* when it is < 1000, the same for all four; the length histogram uses 1
\* and the alpha histogram 0.1.
C7_BinWidths ==
    Done =>
      LET width == IF MeanOfMeansCmp1000 \in {"above", "equal"} THEN <<100, 1>>
                   ELSE <<5, 1>>
      IN  /\ \A i \in {2, 4, 5, 6} : plot[i].binsize = width
          /\ plot[1].binsize = <<1, 1>>
          /\ plot[3].binsize = <<1, 10>>
          /\ plot[2].values = an.track_mean_intensity
          /\ an.track_mean_intensity = MeansOfTracks(
                 {r.track_id : r \in an.current_tracks_df.rows})

(***************************************************************************)
(* Claims: Download and the cached tables                                  *)
(***************************************************************************)
\* C9 as stated: a Download writes all four files or none, and none when
\* no Tracks layer is selected or no Analyze has produced the tables.
C9_AllOrNothing ==
    /\ Len(dl.files) \in {0, 4}
    /\ dl.outcome \in {"warned", "KeyError", "cancelled", "AttributeError"}
          => dl.files = <<>>

CachedKeys == {"filtered_tracks_df", "tracked_msd", "msd_delta", "tracked_msd_fit"}

\* C10 as stated: the four cached entries of a layer's metadata are there
\* together and come from one Analyze run: the fit was computed from the
\* cached MSD table with the cached time delay, and the MSD table from the
\* cached filtered table.
C10_CacheFromOneRun ==
    \A l \in DOMAIN tracks :
      LET metadata == tracks[l].metadata IN
      /\ CachedKeys \cap DOMAIN metadata \in {{}, CachedKeys}
      /\ CachedKeys \subseteq DOMAIN metadata =>
           /\ metadata["tracked_msd_fit"].msd = metadata["tracked_msd"]
           /\ metadata["tracked_msd_fit"].delta = metadata["msd_delta"]
           /\ metadata["tracked_msd"] = TrackMsd(metadata["filtered_tracks_df"])

\* the layer whose name gives the prefix of the files of the last Download
DownloadedLayer ==
    CHOOSE l \in DOMAIN tracks :
        dl.files[1].name = RemovePrefix(tracks[l].name, Tracks_) \o _all_tracks_csv

\* C11 as stated: the MSD, MSD-fit and filtered-tracks tables written by a
\* completed Download were computed from the layer whose all-tracks table
\* and name prefix that Download wrote, by that layer's most recent
\* analysis: the filtered table is cut from the all-tracks table written
\* with it, the three tables are the ones cached on that layer, and the fit
\* was made from the MSD table and the MSD table from the filtered table.
C11_ExportFromOneLayer ==
    dl.outcome = "saved" =>
      LET all_tracks == dl.files[1].table
          tracked_msd == dl.files[2].table
          tracked_msd_fit == dl.files[3].table
          filtered_tracks_df == dl.files[4].table
          metadata == tracks[DownloadedLayer].metadata
      IN  /\ filtered_tracks_df.columns = all_tracks.columns
          /\ filtered_tracks_df.rows \subseteq all_tracks.rows
          /\ {"filtered_tracks_df", "tracked_msd", "tracked_msd_fit"}
                \subseteq DOMAIN metadata
          /\ metadata["filtered_tracks_df"] = filtered_tracks_df
          /\ metadata["tracked_msd"] = tracked_msd
          /\ metadata["tracked_msd_fit"] = tracked_msd_fit
          /\ tracked_msd = TrackMsd(filtered_tracks_df)
          /\ tracked_msd_fit.msd = tracked_msd

(***************************************************************************)
(* Claims: double clicks                                                   *)
(***************************************************************************)
\* C12 as stated: however many runs of Analyze completed on a layer, at
\* most one show_track handler is registered on it, and a double click on
\* a layer with a handler emits trackSelected once for a track and not at
\* all when get_value returns None.
C12_OneHandlerPerLayer ==
    /\ \A l \in DOMAIN tracks : tracks[l].callbacks <= 1
    /\ (click.layer # NoLayer /\ tracks[click.layer].callbacks >= 1)
          => Len(click.emitted) <= 1

====
